---- MODULE Spec2Model ----
(***************************************************************************)
(* A model of taupy's VelocityModel (src/taupy/VelocityModel.py): the      *)
(* layer lookups, the discontinuity bookkeeping, validate, the two         *)
(* model-file parsers and the transforms; and of the depthCorrect of       *)
(* TauP_Pierce (src/taupy/TauP_Pierce.py).                                 *)
(*                                                                         *)
(* Depths and radii are integers in units of 0.1 km, so that the default   *)
(* inner-core boundary 5153.9 km is the integer 51539 and the 65.0 km and  *)
(* 100.0 km windows of fixDisconDepths are 650 and 1000.  Velocities,      *)
(* densities and Q factors are small integers; only their order and their  *)
(* equality matter to the code modelled here.                              *)
(***************************************************************************)
EXTENDS Integers, Sequences, FiniteSets, TLC

VARIABLES
    vMod,   \* the VelocityModel instance the operations act on
    op,     \* the operation that produced this state
    arg,    \* the input that operation was given
    ret,    \* what it returned: [exc |-> "" or the exception raised, val |-> value]
    old,    \* the instance as it was before that operation
    pierce  \* the TauP_Pierce instance: its tMod, tModDepth and addDepth

vars == <<vMod, op, arg, ret, old, pierce>>

----------------------------------------------------------------------------
(* Bounds of the model.                                                    *)

MaxLayers == 3

MaxRows == 5

MaxLines == 4

----------------------------------------------------------------------------
(* Constructor defaults.                                                   *)

DEFAULT_RADIUS == 63710

DEFAULT_MOHO == 350

DEFAULT_CMB == 28890

DEFAULT_IOCB == 51539

DEFAULT_MINRADIUS == 0

DEFAULT_MAXRADIUS == 63710

DEFAULT_QP == 1000

DEFAULT_QS == 2000

DEFAULT_DENSITY == 26

Abs(x) == IF x < 0 THEN -x ELSE x

Returned(v) == [exc |-> "", val |-> v]

Raised(e) == [exc |-> e, val |-> 0]

NoArg == <<>>

(* None where a tau model is expected, and no TauP_Pierce instance.        *)
NoTauModel == [none |-> TRUE, sourceDepth |-> 0, branchDepths |-> <<>>]

NoPierce ==
    [tMod |-> NoTauModel, tModDepth |-> NoTauModel, addDepth |-> <<>>]

(* One layer: a depth interval with the values at its two ends.            *)
VelocityLayer(topDepth, botDepth, topPVel, botPVel, topSVel, botSVel, topDensity, botDensity, topQp, botQp, topQs, botQs) ==
    [topDepth |-> topDepth, botDepth |-> botDepth,
     topPVelocity |-> topPVel, botPVelocity |-> botPVel,
     topSVelocity |-> topSVel, botSVelocity |-> botSVel,
     topDensity |-> topDensity, botDensity |-> botDensity,
     topQp |-> topQp, botQp |-> botQp, topQs |-> topQs, botQs |-> botQs]

(* VelocityModel.__init__                                                  *)
VelocityModel(radiusOfEarth, mohoDepth, cmbDepth, iocbDepth, minRadius, maxRadius, isSpherical, layers) ==
    [radiusOfEarth |-> radiusOfEarth, mohoDepth |-> mohoDepth,
     cmbDepth |-> cmbDepth, iocbDepth |-> iocbDepth,
     minRadius |-> minRadius, maxRadius |-> maxRadius,
     isSpherical |-> isSpherical, layers |-> layers]

(* VelocityModel() with every argument defaulted.                          *)
DefaultModel ==
    VelocityModel(DEFAULT_RADIUS, DEFAULT_MOHO, DEFAULT_CMB, DEFAULT_IOCB,
                  DEFAULT_MINRADIUS, DEFAULT_MAXRADIUS, TRUE, <<>>)

----------------------------------------------------------------------------
(* Lookup.                                                                 *)

RECURSIVE ScanAbove(_, _, _)
ScanAbove(layers, depth, i) ==
    IF i > Len(layers) THEN Raised("TauPException: No such layer.")
    ELSE IF layers[i].topDepth < depth /\ depth <= layers[i].botDepth
         THEN Returned(i - 1)
         ELSE ScanAbove(layers, depth, i + 1)

RECURSIVE ScanAboveClosedTop(_, _, _)
ScanAboveClosedTop(layers, depth, i) ==
    IF i > Len(layers) THEN Raised("TauPException: No such layer.")
    ELSE IF layers[i].topDepth <= depth /\ depth <= layers[i].botDepth
         THEN Returned(i - 1)
         ELSE ScanAboveClosedTop(layers, depth, i + 1)

RECURSIVE ScanBelow(_, _, _)
ScanBelow(layers, depth, i) ==
    IF i > Len(layers) THEN Raised("TauPException: No such layer.")
    ELSE IF layers[i].topDepth <= depth /\ depth < layers[i].botDepth
         THEN Returned(i - 1)
         ELSE ScanBelow(layers, depth, i + 1)

(* A layerNumberAbove that takes the top of a layer as inside it.          *)
layerNumberAboveClosedTop(m, depth) == ScanAboveClosedTop(m.layers, depth, 1)

(* The index (from 0) of the first layer with topDepth < depth <= botDepth.*)
layerNumberAbove(m, depth) == ScanAbove(m.layers, depth, 1)

(* The index (from 0) of the first layer with topDepth <= depth < botDepth.*)
layerNumberBelow(m, depth) == ScanBelow(m.layers, depth, 1)

----------------------------------------------------------------------------
(* Discontinuities.                                                        *)

(* A discontinuity test that looks at the P velocity alone.                 *)
IsDisconPOnly(above, below) == above.botPVelocity # below.topPVelocity

(* The test of getDisconDepths and fixDisconDepths on two adjacent layers. *)
IsDiscon(above, below) ==
    \/ above.botPVelocity # below.topPVelocity
    \/ above.botSVelocity # below.topSVelocity

RECURSIVE DisconScan(_, _)
DisconScan(layers, i) ==
    IF i >= Len(layers) THEN <<>>
    ELSE (IF IsDiscon(layers[i], layers[i + 1])
          THEN <<layers[i].botDepth>> ELSE <<>>)
         \o DisconScan(layers, i + 1)

(* self.layers[0] of an empty list raises IndexError.                      *)
getDisconDepths(m) ==
    IF Len(m.layers) = 0 THEN Raised("IndexError")
    ELSE Returned(<<m.layers[1].topDepth>> \o DisconScan(m.layers, 1)
                  \o <<m.layers[Len(m.layers)].botDepth>>)

----------------------------------------------------------------------------
(* fixDisconDepths.                                                        *)

(* The local variables of fixDisconDepths before its loop.                 *)
FixStart(m) ==
    [mohoMin |-> 650, cmbMin |-> m.radiusOfEarth,
     iocbMin |-> m.radiusOfEarth - 1000,
     tempMohoDepth |-> 0, tempCmbDepth |-> m.radiusOfEarth,
     tempIocbDepth |-> m.radiusOfEarth]

PickMoho(m, d, s) ==
    IF Abs(m.mohoDepth - d) < s.mohoMin
    THEN [s EXCEPT !.tempMohoDepth = d, !.mohoMin = Abs(m.mohoDepth - d)]
    ELSE s

(* A cmb pick that measures the distance from the stored moho depth.      *)
PickCmbFromMoho(m, d, s) ==
    IF Abs(m.mohoDepth - d) < s.cmbMin
    THEN [s EXCEPT !.tempCmbDepth = d, !.cmbMin = Abs(m.mohoDepth - d)]
    ELSE s

PickCmb(m, d, s) ==
    IF Abs(m.cmbDepth - d) < s.cmbMin
    THEN [s EXCEPT !.tempCmbDepth = d, !.cmbMin = Abs(m.cmbDepth - d)]
    ELSE s

PickIocb(m, above, below, s) ==
    IF /\ above.botSVelocity = 0
       /\ below.topSVelocity > 0
       /\ Abs(m.iocbDepth - above.botDepth) < s.iocbMin
    THEN [s EXCEPT !.tempIocbDepth = above.botDepth,
                   !.iocbMin = Abs(m.iocbDepth - above.botDepth)]
    ELSE s

(* One pass of the while loop, on layers layerNum and layerNum + 1.        *)
FixStep(m, layerNum, s) ==
    LET aboveLayer == m.layers[layerNum]
        belowLayer == m.layers[layerNum + 1]
    IN  IF IsDiscon(aboveLayer, belowLayer)
        THEN PickIocb(m, aboveLayer, belowLayer,
                 PickCmb(m, aboveLayer.botDepth,
                     PickMoho(m, aboveLayer.botDepth, s)))
        ELSE s

RECURSIVE FixLoop(_, _, _)
FixLoop(m, layerNum, s) ==
    IF layerNum >= Len(m.layers) THEN s
    ELSE FixLoop(m, layerNum + 1, FixStep(m, layerNum, s))

(* The locals after the loop.                                              *)
FixScan(m) == FixLoop(m, 1, FixStart(m))

(* changeMade, as line 636 computes it from the loop's locals.             *)
ChangeMade(m, s) ==
    \/ m.mohoDepth # s.tempMohoDepth
    \/ m.cmbDepth # s.tempCmbDepth
    \/ m.iocbDepth # s.tempIocbDepth

(* The iocb depth stored without the reset on a cmb coincidence.           *)
StoredIocbNoReset(m, s) == s.tempIocbDepth

(* The iocb depth line 640 stores.                                         *)
StoredIocb(m, s) ==
    IF s.tempCmbDepth # s.tempIocbDepth THEN s.tempIocbDepth
    ELSE m.radiusOfEarth

(* fixDisconDepths: the model it leaves and the value it returns.          *)
fixDisconDepths(m) ==
    LET s == FixScan(m)
    IN  [model |-> [m EXCEPT !.mohoDepth = s.tempMohoDepth,
                             !.cmbDepth = s.tempCmbDepth,
                             !.iocbDepth = StoredIocb(m, s)],
         changeMade |-> ChangeMade(m, s)]

----------------------------------------------------------------------------
(* validate.                                                               *)

(* The checks of lines 312-338 on the radius and the boundary depths.      *)
MetaSound(m) ==
    /\ ~(m.radiusOfEarth <= 0)
    /\ ~(m.mohoDepth < 0)
    /\ ~(m.cmbDepth < m.mohoDepth)
    /\ ~(m.cmbDepth <= 0)
    /\ ~(m.iocbDepth < m.cmbDepth)
    /\ ~(m.iocbDepth <= 0)
    /\ ~(m.minRadius < 0)
    /\ ~(m.maxRadius <= 0)
    /\ ~(m.maxRadius <= m.minRadius)

(* A geometry check that lets a zero-thickness layer through.              *)
LayerGeometryOkNoThickness(prevBotDepth, curr) ==
    ~(prevBotDepth # curr.topDepth)

(* Lines 344-353: no gap to the previous layer, no zero thickness.         *)
LayerGeometryOk(prevBotDepth, curr) ==
    /\ ~(prevBotDepth # curr.topDepth)
    /\ ~(curr.botDepth = curr.topDepth)

(* Lines 354-365: the velocity checks on one layer.                        *)
LayerVelocityOk(curr) ==
    /\ ~(curr.topPVelocity <= 0 \/ curr.botPVelocity <= 0)
    /\ ~(curr.topSVelocity < 0 \/ curr.botSVelocity < 0)
    /\ ~(\/ (curr.topPVelocity # 0 /\ curr.botPVelocity = 0)
         \/ (curr.topPVelocity = 0 /\ curr.botPVelocity # 0))
    /\ ~(\/ (curr.topSVelocity # 0 /\ curr.botSVelocity = 0)
         \/ (curr.topSVelocity = 0 /\ curr.botSVelocity # 0))

RECURSIVE ValidateLoop(_, _, _)
ValidateLoop(layers, layerNum, prevBotDepth) ==
    IF layerNum > Len(layers) THEN TRUE
    ELSE /\ LayerGeometryOk(prevBotDepth, layers[layerNum])
         /\ LayerVelocityOk(layers[layerNum])
         /\ ValidateLoop(layers, layerNum + 1, layers[layerNum].botDepth)

(* validate: False at the first failed check; getVelocityLayer(0) of an    *)
(* empty model raises.  The previous layer of layer 0 is a layer of zero   *)
(* thickness at layer 0's own top depth (line 340).                        *)
validate(m) ==
    IF ~MetaSound(m) THEN Returned(FALSE)
    ELSE IF Len(m.layers) = 0 THEN Raised("IndexError")
    ELSE Returned(ValidateLoop(m.layers, 1, m.layers[1].topDepth))

----------------------------------------------------------------------------
(* The models the operations are tried on: what VelocityModel(...) is      *)
(* given.                                                                  *)

SeqsUpTo(S, n) == UNION { [1..k -> S] : k \in 0..n }

RECURSIVE SortedSeq(_)
SortedSeq(S) ==
    IF S = {} THEN <<>>
    ELSE LET x == CHOOSE x \in S : \A y \in S : x <= y
         IN  <<x>> \o SortedSeq(S \ {x})

(* A layer of the given interval and end velocities, other values default. *)
Layer(topDepth, botDepth, v) ==
    VelocityLayer(topDepth, botDepth, v[1], v[2], v[3], v[4],
                  DEFAULT_DENSITY, DEFAULT_DENSITY, DEFAULT_QP, DEFAULT_QP,
                  DEFAULT_QS, DEFAULT_QS)

(* The layers between the consecutive depths of b, layer i with the        *)
(* velocities v[i] = <<topP, botP, topS, botS>>.                           *)
LayersOver(b, v) == [i \in 1..(Len(b) - 1) |-> Layer(b[i], b[i + 1], v[i])]

(* Any geometry: gaps, overlaps, zero and negative thickness.              *)
GeometryDepths == {0, 200, 350}

GeometryModels ==
    { [DefaultModel EXCEPT !.layers = ls] :
        ls \in SeqsUpTo({ Layer(t, b, <<6, 6, 3, 3>>) :
                            t \in GeometryDepths, b \in GeometryDepths },
                        MaxLayers) }

(* Contiguous layers of increasing depth with differing end velocities,    *)
(* the radius at the last depth, and two choices of stored boundary depths.*)
DisconDepths == {0, 350, 500, 30000, 51539, 63710}

DisconVelocities ==
    { <<6, 6, 3, 3>>, <<6, 8, 3, 4>>, <<8, 8, 0, 0>>, <<8, 8, 3, 3>> }

StoredDepths ==
    { <<DEFAULT_MOHO, DEFAULT_CMB, DEFAULT_IOCB>>, <<350, 30000, 30000>> }

BoundarySeqs ==
    { SortedSeq(D) : D \in { D \in SUBSET DisconDepths :
                               Cardinality(D) \in 2..(MaxLayers + 1) } }

DisconModels ==
    UNION { { VelocityModel(b[Len(b)], d[1], d[2], d[3], DEFAULT_MINRADIUS,
                            b[Len(b)], TRUE, LayersOver(b, v)) :
                v \in [1..(Len(b) - 1) -> DisconVelocities],
                d \in StoredDepths } :
            b \in BoundarySeqs }

(* Sound geometry, any sign and any zero pattern of the end velocities.    *)
EndValues(hi) == { <<hi, hi>>, <<0, 0>>, <<0, hi>>, <<hi, 0>>, <<-1, hi>> }

AnyVelocities ==
    { <<p[1], p[2], s[1], s[2]>> : p \in EndValues(6), s \in EndValues(3) }

VelocityModels ==
    { [DefaultModel EXCEPT !.layers = LayersOver(b, v)] :
        b \in {<<0, 63710>>}, v \in [1..1 -> AnyVelocities] }
    \cup
    { [DefaultModel EXCEPT !.layers = LayersOver(b, v)] :
        b \in {<<0, 350, 63710>>}, v \in [1..2 -> AnyVelocities] }

(* Sound layers, any radius and boundary depths.                           *)
MetaModels ==
    { VelocityModel(r, moho, cmb, iocb, minR, maxR, TRUE,
                    LayersOver(<<0, 350, 63710>>,
                               <<(<<6, 6, 3, 3>>), (<<8, 8, 3, 3>>)>>)) :
        r \in {0, DEFAULT_RADIUS}, moho \in {-10, 0, DEFAULT_MOHO},
        cmb \in {0, 100, DEFAULT_CMB}, iocb \in {0, 50, DEFAULT_IOCB},
        minR \in {-10, 0, DEFAULT_MAXRADIUS}, maxR \in {0, DEFAULT_MAXRADIUS} }

Models == GeometryModels \cup DisconModels \cup VelocityModels \cup MetaModels

(* The depths the lookups are asked for.                                   *)
QueryDepths == {-100, 0, 100, 200, 350, 400}

----------------------------------------------------------------------------
(* The operations on a model.                                              *)

Init ==
    /\ vMod \in Models
    /\ op = "VelocityModel"
    /\ arg = NoArg
    /\ ret = Returned(0)
    /\ old = vMod
    /\ pierce = NoPierce

LayerNumberAbove(depth) ==
    /\ vMod' = vMod
    /\ op' = "layerNumberAbove"
    /\ arg' = depth
    /\ ret' = layerNumberAbove(vMod, depth)
    /\ old' = vMod
    /\ pierce' = pierce

LayerNumberBelow(depth) ==
    /\ vMod' = vMod
    /\ op' = "layerNumberBelow"
    /\ arg' = depth
    /\ ret' = layerNumberBelow(vMod, depth)
    /\ old' = vMod
    /\ pierce' = pierce

GetDisconDepths ==
    /\ vMod' = vMod
    /\ op' = "getDisconDepths"
    /\ arg' = NoArg
    /\ ret' = getDisconDepths(vMod)
    /\ old' = vMod
    /\ pierce' = pierce

FixDisconDepths ==
    /\ vMod' = fixDisconDepths(vMod).model
    /\ op' = "fixDisconDepths"
    /\ arg' = NoArg
    /\ ret' = Returned(fixDisconDepths(vMod).changeMade)
    /\ old' = vMod
    /\ pierce' = pierce

Validate ==
    /\ vMod' = vMod
    /\ op' = "validate"
    /\ arg' = NoArg
    /\ ret' = validate(vMod)
    /\ old' = vMod
    /\ pierce' = pierce

Next ==
    \/ \E depth \in QueryDepths : LayerNumberAbove(depth)
    \/ \E depth \in QueryDepths : LayerNumberBelow(depth)
    \/ GetDisconDepths
    \/ FixDisconDepths
    \/ Validate

Spec == Init /\ [][Next]_vars

----------------------------------------------------------------------------
(* The model files.  A file is a sequence of lines, a line a sequence of   *)
(* tokens; the tokenizer hands out the tokens of each line, then an EOL,   *)
(* and EOF after the last line.  nval keeps the last number read.          *)

Num(n) == [ttype |-> "TT_NUMBER", nval |-> n, sval |-> ""]

Word(w) == [ttype |-> "TT_WORD", nval |-> 0, sval |-> w]

EOL == [ttype |-> "TT_EOL", nval |-> 0, sval |-> ""]

RECURSIVE TokensOf(_)
TokensOf(lines) ==
    IF lines = <<>> THEN <<>>
    ELSE Head(lines) \o <<EOL>> \o TokensOf(Tail(lines))

(* StreamTokenizer(in_): nothing read yet.                                 *)
StreamTokenizer(lines) ==
    [toks |-> TokensOf(lines), pos |-> 0, ttype |-> "TT_NOTHING",
     nval |-> 0, sval |-> ""]

(* tokenIn.nextToken()                                                     *)
nextToken(t) ==
    IF t.pos >= Len(t.toks)
    THEN [t EXCEPT !.pos = Len(t.toks) + 1, !.ttype = "TT_EOF", !.sval = ""]
    ELSE LET tok == t.toks[t.pos + 1]
         IN  [t EXCEPT !.pos = t.pos + 1,
                       !.ttype = tok.ttype,
                       !.nval = IF tok.ttype = "TT_NUMBER"
                                THEN tok.nval ELSE t.nval,
                       !.sval = tok.sval]

(* while tokenIn.nextToken() != TT_EOL: pass   (stops at the end of file   *)
(* too, where the code would not return)                                   *)
RECURSIVE SkipPastEOL(_)
SkipPastEOL(t) ==
    LET n == nextToken(t)
    IN  IF n.ttype \in {"TT_EOL", "TT_EOF"} THEN n ELSE SkipPastEOL(n)

(* while tokenIn.ttype != TT_EOL: tokenIn.nextToken()                      *)
RECURSIVE SkipToEOL(_)
SkipToEOL(t) ==
    IF t.ttype \in {"TT_EOL", "TT_EOF"} THEN t ELSE SkipToEOL(nextToken(t))

(* sval.lower()                                                            *)
Lower(w) ==
    CASE w = "MOHO" -> "moho"
      [] w = "Outer-Core" -> "outer-core"
      [] w = "ICOCB" -> "icocb"
      [] w = "ND" -> "nd"
      [] w = "TVEL" -> "tvel"
      [] OTHER -> w

TVEL_DENSITY == 55710

(* A parser that adds every layer, of zero thickness too.                  *)
KeepLayerAlways(tempLayer) == TRUE

(* Lines 497 and 603: a layer of zero thickness is not added.              *)
KeepLayer(tempLayer) == tempLayer.topDepth # tempLayer.botDepth

(* A check of S against P that accepts what it should refuse.              *)
SExceedsPNever(sVel, pVel) == FALSE

(* Lines 461, 480, 543, 580.                                               *)
SExceedsP(sVel, pVel) == sVel > pVel

(* One pass of the while loop of readTVelFile_0 (lines 474-499), s the     *)
(* locals: the tokenizer, the carried top values, the layers so far.       *)
RECURSIVE TVelLoop(_)
TVelLoop(s) ==
    IF s.tokenIn.ttype = "TT_EOF"
    THEN Returned(VelocityModel(s.topDepth, DEFAULT_MOHO, DEFAULT_CMB,
                                DEFAULT_IOCB, 0, s.topDepth, TRUE, s.layers))
    ELSE LET botDepth == s.tokenIn.nval
             t1 == nextToken(s.tokenIn)
             botPVel == t1.nval
             t2 == nextToken(t1)
             botSVel == t2.nval
             t3 == nextToken(t2)
             hasDensity == t3.ttype # "TT_EOL"
             botDensity == IF hasDensity THEN t3.nval ELSE s.topDensity
             t4 == IF hasDensity THEN nextToken(t3) ELSE t3
             tempLayer == VelocityLayer(s.topDepth, botDepth, s.topPVel,
                              botPVel, s.topSVel, botSVel, s.topDensity,
                              botDensity, DEFAULT_QP, DEFAULT_QP,
                              DEFAULT_QS, DEFAULT_QS)
         IN  IF SExceedsP(botSVel, botPVel)
             THEN Raised("VelocityModelException")
             ELSE IF t4.ttype # "TT_EOL"
             THEN Raised("VelocityModelException")
             ELSE TVelLoop([tokenIn |-> nextToken(t4),
                            topDepth |-> botDepth, topPVel |-> botPVel,
                            topSVel |-> botSVel, topDensity |-> botDensity,
                            layers |-> IF KeepLayer(tempLayer)
                                       THEN Append(s.layers, tempLayer)
                                       ELSE s.layers])

(* readTVelFile_0 on the lines of a file, its two header lines included.   *)
readTVelFile(lines) ==
    LET t0 == SkipPastEOL(SkipPastEOL(StreamTokenizer(lines)))
        t1 == nextToken(t0)
        topDepth == t1.nval
        t2 == nextToken(t1)
        topPVel == t2.nval
        t3 == nextToken(t2)
        topSVel == t3.nval
        t4 == nextToken(t3)
        hasDensity == t4.ttype # "TT_EOL"
        topDensity == IF hasDensity THEN t4.nval ELSE TVEL_DENSITY
        t5 == IF hasDensity THEN nextToken(t4) ELSE t4
    IN  IF SExceedsP(topSVel, topPVel)
        THEN Raised("VelocityModelException")
        ELSE IF t5.ttype # "TT_EOL"
        THEN Raised("VelocityModelException")
        ELSE TVelLoop([tokenIn |-> nextToken(t5), topDepth |-> topDepth,
                       topPVel |-> topPVel, topSVel |-> topSVel,
                       topDensity |-> topDensity, layers |-> <<>>])

(* The optional density, Qp and Qs of an .nd row (lines 546-554 and        *)
(* 583-591): t is the tokenizer after the token that follows the S         *)
(* velocity, d the values carried so far.                                  *)
NDOptional(t, d) ==
    IF t.ttype = "TT_EOL" THEN [tokenIn |-> t, density |-> d.density,
                                qp |-> d.qp, qs |-> d.qs]
    ELSE LET t1 == nextToken(t)
         IN  IF t1.ttype = "TT_EOL"
             THEN [tokenIn |-> t1, density |-> t.nval, qp |-> d.qp,
                   qs |-> d.qs]
             ELSE LET t2 == nextToken(t1)
                  IN  IF t2.ttype = "TT_EOL"
                      THEN [tokenIn |-> t2, density |-> t.nval,
                            qp |-> t1.nval, qs |-> d.qs]
                      ELSE [tokenIn |-> nextToken(t2), density |-> t.nval,
                            qp |-> t1.nval, qs |-> t2.nval]

(* One pass of the while loop of readNDFile_0 (lines 563-605).  botDensity,*)
(* botQp and botQs are locals that keep their value from row to row.       *)
RECURSIVE NDLoop(_)
NDLoop(s) ==
    IF s.tokenIn.ttype = "TT_EOF"
    THEN Returned(VelocityModel(s.topDepth, s.mohoDepth, s.cmbDepth,
                                s.iocbDepth, 0, s.topDepth, TRUE, s.layers))
    ELSE IF s.tokenIn.ttype = "TT_WORD"
    THEN LET w == Lower(s.tokenIn.sval)
         IN  NDLoop([s EXCEPT
                 !.mohoDepth = IF w \in {"mantle", "moho"}
                               THEN s.topDepth ELSE @,
                 !.cmbDepth = IF w \in {"outer-core", "cmb"}
                              THEN s.topDepth ELSE @,
                 !.iocbDepth = IF w \in {"inner-core", "icocb"}
                               THEN s.topDepth ELSE @,
                 !.tokenIn = nextToken(SkipToEOL(s.tokenIn))])
    ELSE LET botDepth == s.tokenIn.nval
             t1 == nextToken(s.tokenIn)
             botPVel == t1.nval
             t2 == nextToken(t1)
             botSVel == t2.nval
             o == NDOptional(nextToken(t2),
                             [density |-> s.botDensity, qp |-> s.botQp,
                              qs |-> s.botQs])
             tempLayer == VelocityLayer(s.topDepth, botDepth, s.topPVel,
                              botPVel, s.topSVel, botSVel, s.topDensity,
                              o.density, s.topQp, o.qp, s.topQs, o.qs)
         IN  IF SExceedsP(botSVel, botPVel)
             THEN Raised("VelocityModelException")
             ELSE IF o.tokenIn.ttype # "TT_EOL"
             THEN Raised("VelocityModelException")
             ELSE NDLoop([s EXCEPT
                     !.tokenIn = nextToken(o.tokenIn),
                     !.topDepth = botDepth, !.topPVel = botPVel,
                     !.topSVel = botSVel, !.topDensity = o.density,
                     !.topQp = o.qp, !.topQs = o.qs,
                     !.botDensity = o.density, !.botQp = o.qp,
                     !.botQs = o.qs,
                     !.layers = IF KeepLayer(tempLayer)
                                THEN Append(s.layers, tempLayer)
                                ELSE s.layers])

(* readNDFile_0 on the lines of a file.                                    *)
readNDFile(lines) ==
    LET t1 == nextToken(StreamTokenizer(lines))
        topDepth == t1.nval
        t2 == nextToken(t1)
        topPVel == t2.nval
        t3 == nextToken(t2)
        topSVel == t3.nval
        o == NDOptional(nextToken(t3),
                        [density |-> DEFAULT_DENSITY, qp |-> DEFAULT_QP,
                         qs |-> DEFAULT_QS])
    IN  IF SExceedsP(topSVel, topPVel)
        THEN Raised("VelocityModelException")
        ELSE IF o.tokenIn.ttype # "TT_EOL"
        THEN Raised("VelocityModelException")
        ELSE NDLoop([tokenIn |-> nextToken(o.tokenIn),
                     topDepth |-> topDepth, topPVel |-> topPVel,
                     topSVel |-> topSVel, topDensity |-> o.density,
                     topQp |-> o.qp, topQs |-> o.qs,
                     botDensity |-> DEFAULT_DENSITY, botQp |-> DEFAULT_QP,
                     botQs |-> DEFAULT_QS,
                     mohoDepth |-> DEFAULT_MOHO, cmbDepth |-> DEFAULT_CMB,
                     iocbDepth |-> DEFAULT_IOCB, layers |-> <<>>])

(* filename.endsWith(suffix), fileType.startsWith(".") and                 *)
(* fileType.substring(1, len(fileType)) on the names and types read here.  *)
endsWith(name, suffix) ==
    <<name, suffix>> \in {<<"model.nd", ".nd">>, <<"model.tvel", ".tvel">>}

startsWithDot(fileType) == fileType \in {".nd", ".tvel"}

substring1(fileType) ==
    CASE fileType = ".nd" -> "nd"
      [] fileType = ".tvel" -> "tvel"
      [] OTHER -> fileType

(* A readVelocityFile that hands the parsed model back as it was read.     *)
Unfixed(m) == m

(* Lines 419-420: vMod.fixDisconDepths(); return vMod.                     *)
Fixed(m) == fixDisconDepths(m).model

(* readVelocityFile (lines 400-420) on a file of the given name and lines. *)
(* An empty fileType is taken from the end of the name, a leading "." is   *)
(* dropped, and the type decides the parser whatever its letter case.      *)
readVelocityFile(filename, fileType, lines) ==
    LET named == IF fileType = ""
                 THEN IF endsWith(filename, ".nd") THEN ".nd"
                      ELSE IF endsWith(filename, ".tvel") THEN ".tvel"
                      ELSE fileType
                 ELSE fileType
        type == IF startsWithDot(named) THEN substring1(named) ELSE named
        read == IF Lower(type) = "nd" THEN readNDFile(lines)
                ELSE IF Lower(type) = "tvel" THEN readTVelFile(lines)
                ELSE Raised("VelocityModelException")
    IN  IF read.exc # "" THEN read ELSE Returned(Fixed(read.val))

----------------------------------------------------------------------------
(* Reading model files.  Every line ends with an end of line; a data row   *)
(* holds at least three numbers; a .tvel file starts with its two header   *)
(* lines; an .nd file is any sequence of data rows and marker lines.       *)

Row(numbers) == [i \in 1..Len(numbers) |-> Num(numbers[i])]

TVelHeader == << <<Word("header")>>, <<Word("header")>> >>

TVelLines ==
    { Row(<<0, 6, 3>>), Row(<<200, 6, 3>>), Row(<<200, 8, 4>>),
      Row(<<350, 8, 4>>), Row(<<2100, 8, 4>>), Row(<<350, 3, 6>>),
      Row(<<200, 6, 3, 30>>), Row(<<200, 6, 3, 30, 1>>) }

TVelFiles == SeqsUpTo(TVelLines, MaxRows) \ {<<>>}

NDRows ==
    { Row(<<0, 6, 3>>), Row(<<350, 6, 3>>), Row(<<350, 8, 0>>),
      Row(<<2100, 8, 4>>), Row(<<350, 3, 6>>),
      Row(<<2100, 8, 4, 30, 500, 600>>),
      Row(<<2100, 8, 4, 30, 500, 600, 1>>) }

NDMarkers ==
    { <<Word("mantle")>>, <<Word("outer-core")>>, <<Word("inner-core")>>,
      <<Word("MOHO")>>, <<Word("cmb")>>, <<Word("ICOCB")>> }

NDFiles == SeqsUpTo(NDRows \cup NDMarkers, MaxLines) \ {<<>>}

InitParse ==
    /\ vMod = DefaultModel
    /\ op = "start"
    /\ arg = NoArg
    /\ ret = Returned(0)
    /\ old = vMod
    /\ pierce = NoPierce

(* What a parser hands back: the model read replaces vMod; when the parser *)
(* raises, nothing is returned and vMod stays.                             *)
Parsed(name, lines, r) ==
    /\ vMod' = IF r.exc = "" THEN r.val ELSE vMod
    /\ ret' = IF r.exc = "" THEN Returned(0) ELSE r
    /\ op' = name
    /\ arg' = lines
    /\ old' = vMod
    /\ pierce' = pierce

ReadTVelFile ==
    /\ op = "start"
    /\ \E rows \in TVelFiles :
          Parsed("readTVelFile", rows, readTVelFile(TVelHeader \o rows))

ReadNDFile ==
    /\ op = "start"
    /\ \E lines \in NDFiles :
          Parsed("readNDFile", lines, readNDFile(lines))

(* The files readVelocityFile is called on: a name, a file type and the    *)
(* lines of the file.                                                      *)
NDNamings ==
    { <<"model.nd", "">>, <<"model", ".nd">>, <<"model", "ND">> }

TVelNamings == { <<"model.tvel", "">>, <<"model", "tvel">> }

OtherNamings == { <<"model", "">>, <<"model", "txt">> }

NDShortLines ==
    { Row(<<0, 6, 3>>), Row(<<350, 6, 3>>), Row(<<350, 8, 0>>),
      Row(<<2100, 8, 4>>), Row(<<350, 3, 6>>), <<Word("mantle")>> }

TVelShortLines ==
    { Row(<<0, 6, 3>>), Row(<<200, 6, 3>>), Row(<<200, 8, 4>>),
      Row(<<350, 8, 4>>), Row(<<350, 3, 6>>) }

VelocityFile(naming, lines) ==
    [filename |-> naming[1], fileType |-> naming[2], lines |-> lines]

VelocityFiles ==
    { VelocityFile(n, l) :
        n \in NDNamings, l \in SeqsUpTo(NDShortLines, MaxLines) \ {<<>>} }
    \cup
    { VelocityFile(n, TVelHeader \o l) :
        n \in TVelNamings,
        l \in SeqsUpTo(TVelShortLines, MaxLines) \ {<<>>} }
    \cup
    { VelocityFile(n, <<Row(<<0, 6, 3>>), Row(<<350, 6, 3>>)>>) :
        n \in OtherNamings }

ReadVelocityFile ==
    /\ op = "start"
    /\ \E f \in VelocityFiles :
          Parsed("readVelocityFile", f,
                 readVelocityFile(f.filename, f.fileType, f.lines))

NextParse == ReadTVelFile \/ ReadNDFile \/ ReadVelocityFile

SpecParse == InitParse /\ [][NextParse]_vars

----------------------------------------------------------------------------
(* Vocabulary of the properties.                                           *)

Indices(m) == 1..Len(m.layers)

(* Non-empty, every layer of positive thickness, each ending where the     *)
(* next begins.                                                            *)
ContiguousIncreasing(m) ==
    /\ Len(m.layers) >= 1
    /\ \A i \in Indices(m) : m.layers[i].topDepth < m.layers[i].botDepth
    /\ \A i \in 1..(Len(m.layers) - 1) :
          m.layers[i].botDepth = m.layers[i + 1].topDepth

(* The boundaries between adjacent layers across which P or S jumps.       *)
JumpIndices(m) ==
    { i \in 1..(Len(m.layers) - 1) :
        \/ m.layers[i].botPVelocity # m.layers[i + 1].topPVelocity
        \/ m.layers[i].botSVelocity # m.layers[i + 1].topSVelocity }

JumpDepths(m) == { m.layers[i].botDepth : i \in JumpIndices(m) }

(* The boundaries with S zero just above and positive just below.          *)
LiquidToSolidIndices(m) ==
    { i \in JumpIndices(m) :
        /\ m.layers[i].botSVelocity = 0
        /\ m.layers[i + 1].topSVelocity > 0 }

LiquidToSolidDepths(m) ==
    { m.layers[i].botDepth : i \in LiquidToSolidIndices(m) }

(* Those of the depths D less than window away from x.                     *)
Within(D, x, window) == { d \in D : Abs(x - d) < window }

(* d is one of D and none of D is closer to x.                             *)
ClosestIn(D, x, d) == d \in D /\ \A e \in D : Abs(x - d) <= Abs(x - e)

----------------------------------------------------------------------------
(* The layers that satisfy the condition of each lookup.                   *)
AboveHits(m, depth) ==
    { i \in Indices(m) :
        m.layers[i].topDepth < depth /\ depth <= m.layers[i].botDepth }

BelowHits(m, depth) ==
    { i \in Indices(m) :
        m.layers[i].topDepth <= depth /\ depth < m.layers[i].botDepth }

OutsideRange(m, depth) ==
    \/ \A i \in Indices(m) :
          depth < m.layers[i].topDepth /\ depth < m.layers[i].botDepth
    \/ \A i \in Indices(m) :
          depth > m.layers[i].topDepth /\ depth > m.layers[i].botDepth

LookupAnswers(hits) ==
    /\ (ret.exc = "") <=> (hits # {})
    /\ ret.exc = "" =>
          /\ ret.val + 1 \in hits
          /\ \A i \in hits : ret.val + 1 <= i
    /\ ret.exc # "" => ret.exc = "TauPException: No such layer."
    /\ OutsideRange(vMod, arg) => ret.exc # ""

(* C1: layerNumberAbove(depth) returns the index i of a layer with         *)
(* topDepth < depth <= botDepth (the first one) and layerNumberBelow(depth)*)
(* the index of a layer with topDepth <= depth < botDepth; each raises "No *)
(* such layer" exactly when no layer satisfies its condition, which is the *)
(* case for every depth outside the depths the layers span.                *)
C1_LookupContract ==
    /\ op = "layerNumberAbove" => LookupAnswers(AboveHits(vMod, arg))
    /\ op = "layerNumberBelow" => LookupAnswers(BelowHits(vMod, arg))

(* layerNumberAbove has answered the upper layer at an internal boundary.  *)
C1_Witness ==
    /\ op = "layerNumberAbove"
    /\ ret.exc = ""
    /\ ret.val + 2 \in Indices(vMod)
    /\ arg = vMod.layers[ret.val + 1].botDepth
    /\ arg = vMod.layers[ret.val + 2].topDepth

(* C2: in a model of contiguous layers from depth 0, at every depth of     *)
(* [0, maxDepth] layerNumberAbove and layerNumberBelow both answer: with   *)
(* Below = Above + 1 at an internal boundary and with the same index at    *)
(* every other depth, the surface and the bottom included.                 *)
C2_AboveBelowEverywhere ==
    ( /\ op = "layerNumberAbove"
      /\ ContiguousIncreasing(vMod)
      /\ vMod.layers[1].topDepth = 0
      /\ 0 <= arg
      /\ arg <= vMod.layers[Len(vMod.layers)].botDepth )
    => LET below == layerNumberBelow(vMod, arg)
           internal == \E i \in 1..(Len(vMod.layers) - 1) :
                          vMod.layers[i].botDepth = arg
       IN  /\ ret.exc = ""
           /\ below.exc = ""
           /\ below.val = IF internal THEN ret.val + 1 ELSE ret.val

(* C3: on non-empty contiguous layers of increasing depth getDisconDepths  *)
(* returns an increasing sequence that starts with the first layer's top   *)
(* depth, ends with the last layer's bottom depth, and holds an internal   *)
(* boundary exactly when P or S jumps across it.                           *)
C3_DisconDepths ==
    (op = "getDisconDepths" /\ ContiguousIncreasing(vMod))
    => /\ ret.exc = ""
       /\ LET r == ret.val
              n == Len(ret.val)
          IN  /\ n >= 2
              /\ r[1] = vMod.layers[1].topDepth
              /\ r[n] = vMod.layers[Len(vMod.layers)].botDepth
              /\ \A k \in 1..(n - 1) : r[k] < r[k + 1]
              /\ \A i \in 1..(Len(vMod.layers) - 1) :
                    (\E k \in 1..n : r[k] = vMod.layers[i].botDepth)
                    <=> (i \in JumpIndices(vMod))
              /\ { r[k] : k \in 2..(n - 1) } = JumpDepths(vMod)

(* Three layers, S alone jumps across one boundary, nothing across the     *)
(* other: the first is listed, the second is not.                          *)
C3_Witness ==
    /\ op = "getDisconDepths"
    /\ ContiguousIncreasing(vMod)
    /\ Len(vMod.layers) = 3
    /\ ret.exc = ""
    /\ Len(ret.val) = 3
    /\ \E i \in JumpIndices(vMod) :
          vMod.layers[i].botPVelocity = vMod.layers[i + 1].topPVelocity

(* C4: after fixDisconDepths, when some velocity jump lies less than 65 km  *)
(* from the moho depth stored before the call, mohoDepth is such a jump    *)
(* and none of them is closer to the stored depth; likewise cmbDepth with  *)
(* the jumps less than radiusOfEarth from the stored cmb depth.  Each is   *)
(* measured from its own stored depth.                                     *)
C4_NearestMohoCmb ==
    op = "fixDisconDepths" =>
        LET nearMoho == Within(JumpDepths(old), old.mohoDepth, 650)
            nearCmb == Within(JumpDepths(old), old.cmbDepth,
                              old.radiusOfEarth)
        IN  /\ nearMoho # {} =>
                  ClosestIn(nearMoho, old.mohoDepth, vMod.mohoDepth)
            /\ nearCmb # {} =>
                  ClosestIn(nearCmb, old.cmbDepth, vMod.cmbDepth)

(* Two jumps within 65 km of the stored moho and two within the radius of  *)
(* the stored cmb; moho and cmb were set to different jumps.               *)
C4_Witness ==
    /\ op = "fixDisconDepths"
    /\ Cardinality(Within(JumpDepths(old), old.mohoDepth, 650)) >= 2
    /\ Cardinality(Within(JumpDepths(old), old.cmbDepth,
                          old.radiusOfEarth)) >= 2
    /\ vMod.mohoDepth \in JumpDepths(old)
    /\ vMod.cmbDepth \in JumpDepths(old)
    /\ vMod.mohoDepth # vMod.cmbDepth
    /\ vMod.cmbDepth # old.cmbDepth

(* The iocb candidate of the call: of the liquid-to-solid boundaries less  *)
(* than radiusOfEarth - 100 km from the stored iocb depth, the first of    *)
(* the closest; radiusOfEarth when there is none.                          *)
IocbCandidate(m) ==
    LET near == { i \in LiquidToSolidIndices(m) :
                    Abs(m.iocbDepth - m.layers[i].botDepth)
                        < m.radiusOfEarth - 1000 }
        dist(i) == Abs(m.iocbDepth - m.layers[i].botDepth)
    IN  IF near = {} THEN m.radiusOfEarth
        ELSE m.layers[CHOOSE i \in near :
                        \A j \in near :
                            dist(i) < dist(j) \/ (dist(i) = dist(j) /\ i <= j)
                     ].botDepth

(* C5: after fixDisconDepths iocbDepth is radiusOfEarth or the depth of a  *)
(* boundary with S zero above and positive below; it is radiusOfEarth when *)
(* no boundary is of that kind and when the iocb candidate is the depth    *)
(* cmbDepth was set to.                                                    *)
C5_IocbDepth ==
    op = "fixDisconDepths" =>
        /\ \/ vMod.iocbDepth = old.radiusOfEarth
           \/ vMod.iocbDepth \in LiquidToSolidDepths(old)
        /\ LiquidToSolidDepths(old) = {} =>
              vMod.iocbDepth = old.radiusOfEarth
        /\ IocbCandidate(old) = vMod.cmbDepth =>
              vMod.iocbDepth = old.radiusOfEarth
        /\ IocbCandidate(old) # vMod.cmbDepth =>
              vMod.iocbDepth = IocbCandidate(old)

(* One liquid-to-solid boundary, not at the radius, is the candidate of    *)
(* both cmb and iocb: iocb was reset to the radius.                        *)
C5_Witness ==
    /\ op = "fixDisconDepths"
    /\ IocbCandidate(old) \in LiquidToSolidDepths(old)
    /\ IocbCandidate(old) # old.radiusOfEarth
    /\ IocbCandidate(old) = vMod.cmbDepth
    /\ vMod.iocbDepth = old.radiusOfEarth

(* C6: fixDisconDepths returns true exactly when mohoDepth, cmbDepth or    *)
(* iocbDepth is different after the call from what it was before.          *)
C6_ReturnsWhetherChanged ==
    op = "fixDisconDepths" =>
        (ret.val <=> \/ vMod.mohoDepth # old.mohoDepth
                     \/ vMod.cmbDepth # old.cmbDepth
                     \/ vMod.iocbDepth # old.iocbDepth)

(* C7, as claimed: when validate returns true the layers partition         *)
(* [0, maxDepth]: the first starts at 0, each has topDepth < botDepth,     *)
(* each ends where the next begins, the last ends at the maximum depth.    *)
C7_ValidateImpliesPartition ==
    (op = "validate" /\ ret.exc = "" /\ ret.val) =>
        /\ ContiguousIncreasing(vMod)
        /\ vMod.layers[1].topDepth = 0
        /\ vMod.layers[Len(vMod.layers)].botDepth = vMod.maxRadius

(* C7, amended: when validate returns true no layer has topDepth equal to  *)
(* botDepth and each layer ends where the next begins.                     *)
C7_ValidateImpliesContiguous ==
    (op = "validate" /\ ret.exc = "" /\ ret.val) =>
        /\ Len(vMod.layers) >= 1
        /\ \A i \in Indices(vMod) :
              vMod.layers[i].topDepth # vMod.layers[i].botDepth
        /\ \A i \in 1..(Len(vMod.layers) - 1) :
              vMod.layers[i].botDepth = vMod.layers[i + 1].topDepth

(* validate has returned true for three layers.                            *)
C7_Witness ==
    /\ op = "validate"
    /\ ret.exc = ""
    /\ ret.val
    /\ Len(vMod.layers) = 3

(* What validate checks of the radius, the boundary depths and the layer   *)
(* geometry, and that the geometry increases.                              *)
SoundMetaAndGeometry(m) ==
    /\ m.radiusOfEarth > 0
    /\ 0 <= m.mohoDepth
    /\ m.mohoDepth <= m.cmbDepth
    /\ 0 < m.cmbDepth
    /\ m.cmbDepth <= m.iocbDepth
    /\ 0 <= m.minRadius
    /\ m.minRadius < m.maxRadius
    /\ ContiguousIncreasing(m)

ZeroAtOneEnd(top, bot) == (top = 0) # (bot = 0)

(* C8: on a model of sound radius, boundary depths and layer geometry      *)
(* validate returns true exactly when every end velocity is non-negative   *)
(* and no P or S velocity is zero at exactly one end of a layer.           *)
C8_ValidateVelocities ==
    (op = "validate" /\ SoundMetaAndGeometry(vMod)) =>
        /\ ret.exc = ""
        /\ ret.val <=>
              \A i \in Indices(vMod) :
                 LET l == vMod.layers[i]
                 IN  /\ l.topPVelocity >= 0 /\ l.botPVelocity >= 0
                     /\ l.topSVelocity >= 0 /\ l.botSVelocity >= 0
                     /\ ~ZeroAtOneEnd(l.topPVelocity, l.botPVelocity)
                     /\ ~ZeroAtOneEnd(l.topSVelocity, l.botSVelocity)

(* The data rows of a file, and the depth, P and S velocity of a row.      *)
IsDataRow(line) == line[1].ttype = "TT_NUMBER"

RowDepth(line) == line[1].nval

RowP(line) == line[2].nval

RowS(line) == line[3].nval

(* C9: the .tvel parser adds no layer of zero thickness: a row at the      *)
(* depth of the row before it adds no layer, so there are as many layers   *)
(* as pairs of consecutive rows at different depths, and radiusOfEarth and *)
(* maxRadius are the depth of the last row.                                *)
C9_TVelCollapsesEqualDepths ==
    (op = "readTVelFile" /\ ret.exc = "") =>
        /\ \A i \in Indices(vMod) :
              vMod.layers[i].topDepth # vMod.layers[i].botDepth
        /\ Len(vMod.layers) =
              Cardinality({ i \in 1..(Len(arg) - 1) :
                              RowDepth(arg[i]) # RowDepth(arg[i + 1]) })
        /\ vMod.radiusOfEarth = RowDepth(arg[Len(arg)])
        /\ vMod.maxRadius = RowDepth(arg[Len(arg)])

(* Rows at 0, 20, 20, 35 and 210 km were read into three layers and a      *)
(* radius of 210 km.                                                       *)
C9_Witness ==
    /\ op = "readTVelFile"
    /\ ret.exc = ""
    /\ Len(arg) = 5
    /\ [i \in 1..5 |-> RowDepth(arg[i])] = <<0, 200, 200, 350, 2100>>
    /\ Len(vMod.layers) = 3
    /\ vMod.radiusOfEarth = 2100
    /\ vMod.maxRadius = 2100

C11_ParsedLayersIncrease ==
    (op \in {"readTVelFile", "readNDFile"} /\ ret.exc = "") =>
        \A i \in Indices(vMod) :
           /\ vMod.layers[i].topDepth < vMod.layers[i].botDepth
           /\ i > 1 => vMod.layers[i].topDepth = vMod.layers[i - 1].botDepth

(* The lines of an .nd file that are data rows, and the spellings of the   *)
(* marker lines of each boundary.                                          *)
DataRows(lines) == SelectSeq(lines, IsDataRow)

MohoWords == {"mantle", "Mantle", "MANTLE", "moho", "Moho", "MOHO"}

CmbWords ==
    {"outer-core", "Outer-Core", "OUTER-CORE", "cmb", "Cmb", "CMB"}

IocbWords ==
    {"inner-core", "Inner-Core", "INNER-CORE", "icocb", "Icocb", "ICOCB"}

MarkerLines(lines, words) ==
    { k \in 1..Len(lines) :
         ~IsDataRow(lines[k]) /\ lines[k][1].sval \in words }

RowsBefore(lines, k) == { j \in 1..(k - 1) : IsDataRow(lines[j]) }

Last(S) == CHOOSE k \in S : \A j \in S : j <= k

(* A boundary depth read as the claim of C12 has it: the default without   *)
(* a marker line of the boundary, otherwise the depth of the last data row *)
(* before the last such marker line.                                       *)
MarkedDepthOk(lines, words, default, depth) ==
    IF MarkerLines(lines, words) = {} THEN depth = default
    ELSE LET k == Last(MarkerLines(lines, words))
         IN  RowsBefore(lines, k) # {} =>
                depth = RowDepth(lines[Last(RowsBefore(lines, k))])

(* C12: wherever its marker lines stand, an .nd file is read into the      *)
(* layers and radius of its data rows alone, each boundary depth is that   *)
(* of the last data row before the boundary's last marker line, in any     *)
(* letter case, and a boundary without a marker line keeps its default.    *)
C12_MarkersAnywhere ==
    ( /\ op = "readNDFile"
      /\ DataRows(arg) # <<>>
      /\ readNDFile(DataRows(arg)).exc = "" )
    => /\ ret.exc = ""
       /\ vMod.layers = readNDFile(DataRows(arg)).val.layers
       /\ vMod.radiusOfEarth = readNDFile(DataRows(arg)).val.radiusOfEarth
       /\ MarkedDepthOk(arg, MohoWords, DEFAULT_MOHO, vMod.mohoDepth)
       /\ MarkedDepthOk(arg, CmbWords, DEFAULT_CMB, vMod.cmbDepth)
       /\ MarkedDepthOk(arg, IocbWords, DEFAULT_IOCB, vMod.iocbDepth)

(* What holds of the marker lines: the same for the files that start with *)
(* a data row.                                                             *)
MarkersAfterFirstRow ==
    (op = "readNDFile" /\ IsDataRow(arg[1])) => C12_MarkersAnywhere

(* The parser a file name and file type stand for, spelled out.            *)
IsNDNaming(f) ==
    \/ f.fileType \in {"nd", ".nd", "ND"}
    \/ f.fileType = "" /\ f.filename = "model.nd"

IsTVelNaming(f) ==
    \/ f.fileType \in {"tvel", ".tvel", "TVEL"}
    \/ f.fileType = "" /\ f.filename = "model.tvel"

ParsedAlone(f) ==
    IF IsNDNaming(f) THEN readNDFile(f.lines) ELSE readTVelFile(f.lines)

(* C13: a model readVelocityFile returns, for the .nd and for the .tvel    *)
(* file type, is the model its parser read with fixDisconDepths applied    *)
(* to it; when the parser raises, and for every other file type,           *)
(* readVelocityFile raises and returns no model.                           *)
C13_FixedBeforeReturn ==
    op = "readVelocityFile" =>
        IF IsNDNaming(arg) \/ IsTVelNaming(arg)
        THEN IF ParsedAlone(arg).exc = ""
             THEN /\ ret.exc = ""
                  /\ vMod = fixDisconDepths(ParsedAlone(arg).val).model
             ELSE ret.exc # "" /\ vMod = old
        ELSE ret.exc = "VelocityModelException" /\ vMod = old

(* An .nd file given as type "ND" was read into two layers that meet at a  *)
(* P velocity jump at 35 km, and came back with the core boundaries moved  *)
(* from their defaults to the radius of the model.                         *)
C13_Witness ==
    /\ op = "readVelocityFile"
    /\ ret.exc = ""
    /\ arg.fileType = "ND"
    /\ Len(vMod.layers) = 2
    /\ JumpDepths(vMod) = {350}
    /\ vMod.mohoDepth = 350
    /\ vMod.cmbDepth = 2100
    /\ vMod.iocbDepth = 2100
    /\ readNDFile(arg.lines).val.cmbDepth = DEFAULT_CMB

----------------------------------------------------------------------------
(* The transforms.  A flattened depth R * log(depth / R) and a flattened   *)
(* velocity R * v / depth are kept as the numbers they are computed from;  *)
(* Math is no name of the module, so Math.log is either Python's math.log, *)
(* which raises at 0 and below, or Java's, which gives minus infinity at 0 *)
(* and no number below; / is Python's and raises at a zero divisor.        *)

MathLogs == {"math.log", "java.lang.Math.log"}

(* self.radiusOfEarth * Math.log(depth / self.radiusOfEarth)               *)
FlatDepth(mathLog, radiusOfEarth, depth) ==
    LET value(kind) ==
           Returned([kind |-> kind, radius |-> radiusOfEarth,
                     depth |-> depth])
    IN  IF radiusOfEarth = 0 THEN Raised("ZeroDivisionError")
        ELSE IF (depth > 0) = (radiusOfEarth > 0) /\ depth # 0
        THEN value("finite")
        ELSE IF mathLog = "math.log" THEN Raised("ValueError")
        ELSE IF depth = 0 THEN value("-Infinity")
        ELSE value("NaN")

(* self.radiusOfEarth * velocity / depth                                   *)
FlatVelocity(radiusOfEarth, velocity, depth) ==
    IF depth = 0 THEN Raised("ZeroDivisionError")
    ELSE Returned([num |-> radiusOfEarth * velocity, den |-> depth])

(* The first of the results that is an exception, if any.                  *)
FirstRaised(results) ==
    LET bad == { k \in 1..Len(results) : results[k].exc # "" }
    IN  IF bad = {} THEN Returned(0)
        ELSE results[CHOOSE k \in bad : \A j \in bad : k <= j]

(* Line 652: the layer built from oldLayer, its arguments evaluated from   *)
(* left to right; density and Q are those of a new VelocityLayer.          *)
FlattenLayer(mathLog, radiusOfEarth, oldLayer) ==
    LET a == << FlatDepth(mathLog, radiusOfEarth, oldLayer.topDepth),
                FlatDepth(mathLog, radiusOfEarth, oldLayer.botDepth),
                FlatVelocity(radiusOfEarth, oldLayer.topPVelocity,
                             oldLayer.topDepth),
                FlatVelocity(radiusOfEarth, oldLayer.botPVelocity,
                             oldLayer.botDepth),
                FlatVelocity(radiusOfEarth, oldLayer.topSVelocity,
                             oldLayer.topDepth),
                FlatVelocity(radiusOfEarth, oldLayer.botSVelocity,
                             oldLayer.botDepth) >>
    IN  IF FirstRaised(a).exc # "" THEN FirstRaised(a)
        ELSE Returned(VelocityLayer(a[1].val, a[2].val, a[3].val, a[4].val,
                         a[5].val, a[6].val, DEFAULT_DENSITY,
                         DEFAULT_DENSITY, DEFAULT_QP, DEFAULT_QP,
                         DEFAULT_QS, DEFAULT_QS))

(* earthFlattenTransform (lines 643-655).                                  *)
earthFlattenTransform(m, mathLog) ==
    LET flat == [i \in 1..Len(m.layers) |->
                   FlattenLayer(mathLog, m.radiusOfEarth, m.layers[i])]
    IN  IF FirstRaised(flat).exc # "" THEN FirstRaised(flat)
        ELSE Returned(VelocityModel(m.radiusOfEarth, m.mohoDepth,
                         m.cmbDepth, m.iocbDepth, m.minRadius, m.maxRadius,
                         FALSE, [i \in 1..Len(m.layers) |-> flat[i].val]))

(* The models the transforms are called on.                                *)
TransformModels == DisconModels \cup VelocityModels

InitTransform ==
    /\ vMod \in TransformModels
    /\ op = "VelocityModel"
    /\ arg = NoArg
    /\ ret = Returned(0)
    /\ old = vMod
    /\ pierce = NoPierce

EarthFlattenTransform ==
    \E mathLog \in MathLogs :
       /\ vMod' = vMod
       /\ op' = "earthFlattenTransform"
       /\ arg' = NoArg
       /\ ret' = earthFlattenTransform(vMod, mathLog)
       /\ old' = vMod
       /\ pierce' = pierce

(* replaceLayers (lines 189-240).  Line 193 reads newLayers[len(newLayers)],*)
(* one past the last of the new layers, which raises for every argument;   *)
(* lines 194-240 (matching the velocities, cutting topLayer and botLayer,  *)
(* splicing, fixDisconDepths, validate, return) are never reached.         *)
replaceLayers(m, newLayers, matchTop, matchBot) ==
    IF newLayers = <<>> THEN Raised("IndexError")
    ELSE LET topLayerNum == layerNumberBelow(m, newLayers[1].topDepth)
         IN  IF topLayerNum.exc # "" THEN topLayerNum
             ELSE Raised("IndexError")

(* The layers handed to replaceLayers: none, one inside the first 35 km,   *)
(* two down to 3000 km, and one above the surface.                         *)
NewLayers ==
    { <<>>,
      LayersOver(<<200, 350>>, <<(<<8, 8, 3, 3>>)>>),
      LayersOver(<<350, 500, 30000>>, <<(<<6, 8, 3, 4>>), (<<8, 8, 3, 3>>)>>),
      LayersOver(<<-100, 0>>, <<(<<6, 6, 3, 3>>)>>) }

ReplaceLayers ==
    \E newLayers \in NewLayers, matchTop \in BOOLEAN, matchBot \in BOOLEAN :
       /\ vMod' = vMod
       /\ op' = "replaceLayers"
       /\ arg' = [newLayers |-> newLayers, matchTop |-> matchTop,
                  matchBot |-> matchBot]
       /\ ret' = replaceLayers(vMod, newLayers, matchTop, matchBot)
       /\ old' = vMod
       /\ pierce' = pierce

NextTransform == EarthFlattenTransform \/ ReplaceLayers \/ FixDisconDepths

SpecTransform == InitTransform /\ [][NextTransform]_vars

(* The order of two flattened depths of one model of positive radius: the  *)
(* logarithm grows with the depth, and minus infinity is below every       *)
(* number.                                                                 *)
FlatLess(a, b) ==
    /\ a.kind \in {"finite", "-Infinity"}
    /\ b.kind = "finite"
    /\ a.kind = "finite" => a.depth < b.depth

FlattenedInOrder(m, flattened) ==
    /\ flattened.isSpherical = FALSE
    /\ Len(flattened.layers) = Len(m.layers)
    /\ \A i \in Indices(flattened) :
          /\ FlatLess(flattened.layers[i].topDepth,
                      flattened.layers[i].botDepth)
          /\ i > 1 => flattened.layers[i].topDepth =
                         flattened.layers[i - 1].botDepth

(* C14: earthFlattenTransform on a spherical model that validate accepts   *)
(* returns a model that is not spherical, of as many layers, each with its *)
(* top above its bottom and starting where the layer before it ends, also  *)
(* when the first layer starts at depth 0.                                 *)
C14_FlattenKeepsOrder ==
    ( /\ op = "earthFlattenTransform"
      /\ vMod.isSpherical
      /\ validate(vMod) = Returned(TRUE) )
    => /\ ret.exc = ""
       /\ FlattenedInOrder(vMod, ret.val)

(* What holds of earthFlattenTransform: the same for the models that       *)
(* start below depth 0; a model that starts at depth 0 makes it raise.     *)
FlattenBelowSurface ==
    ( /\ op = "earthFlattenTransform"
      /\ vMod.isSpherical
      /\ validate(vMod) = Returned(TRUE) )
    => IF vMod.layers[1].topDepth > 0
       THEN ret.exc = "" /\ FlattenedInOrder(vMod, ret.val)
       ELSE ret.exc \in {"ValueError", "ZeroDivisionError"}

(* New layers that replaceLayers can splice into m: contiguous, of         *)
(* increasing depth, and inside the depths of m.                           *)
Spliceable(m, newLayers) ==
    /\ newLayers # <<>>
    /\ ContiguousIncreasing([m EXCEPT !.layers = newLayers])
    /\ ContiguousIncreasing(m)
    /\ m.layers # <<>>
    /\ m.layers[1].topDepth <= newLayers[1].topDepth
    /\ newLayers[Len(newLayers)].botDepth <= m.layers[Len(m.layers)].botDepth

(* The three boundary depths of a model.                                   *)
Boundaries(m) == <<m.mohoDepth, m.cmbDepth, m.iocbDepth>>

(* C15: replaceLayers returns a model whose layers, the new ones among     *)
(* them, are contiguous from top to bottom, without a P or S jump at the   *)
(* top of the new layers when matchTop and at their bottom when matchBot,  *)
(* and with the boundary depths that fixDisconDepths gives it from those   *)
(* of the model it was called on.                                          *)
C15_ReplaceLayersSplices ==
    (op = "replaceLayers" /\ Spliceable(vMod, arg.newLayers)) =>
        /\ ret.exc = ""
        /\ \A i \in Indices(ret.val) :
              i > 1 => ret.val.layers[i].topDepth =
                          ret.val.layers[i - 1].botDepth
        /\ \A k \in 1..Len(arg.newLayers) :
              \E i \in Indices(ret.val) :
                 /\ ret.val.layers[i].topDepth = arg.newLayers[k].topDepth
                 /\ ret.val.layers[i].botDepth = arg.newLayers[k].botDepth
        /\ arg.matchTop =>
              arg.newLayers[1].topDepth \notin JumpDepths(ret.val)
        /\ arg.matchBot =>
              arg.newLayers[Len(arg.newLayers)].botDepth
                 \notin JumpDepths(ret.val)
        /\ Boundaries(ret.val) =
              Boundaries(fixDisconDepths(
                 [ret.val EXCEPT !.mohoDepth = vMod.mohoDepth,
                                 !.cmbDepth = vMod.cmbDepth,
                                 !.iocbDepth = vMod.iocbDepth]).model)

(* The calls of a transform that the contract of the transform covers.     *)
TransformApplies ==
    \/ /\ op = "earthFlattenTransform"
       /\ vMod.isSpherical
       /\ validate(vMod) = Returned(TRUE)
    \/ /\ op = "replaceLayers"
       /\ Spliceable(vMod, arg.newLayers)

(* What holds of the frame: a transform, returning or raising, leaves the  *)
(* model it was called on as it was, and fixDisconDepths changes nothing   *)
(* but mohoDepth, cmbDepth and iocbDepth.                                  *)
ModelLeftAlone ==
    /\ op \in {"earthFlattenTransform", "replaceLayers"} => vMod = old
    /\ op = "fixDisconDepths" =>
          [vMod EXCEPT !.mohoDepth = old.mohoDepth,
                       !.cmbDepth = old.cmbDepth,
                       !.iocbDepth = old.iocbDepth] = old

(* C16: earthFlattenTransform and replaceLayers each return a new model    *)
(* and leave the model they were called on, its layers and its boundary    *)
(* depths, as it was; fixDisconDepths alone changes the model it is called *)
(* on, and only its mohoDepth, cmbDepth and iocbDepth.                     *)
C16_TransformsReturnFreshModel ==
    /\ TransformApplies => ret.exc = ""
    /\ ModelLeftAlone

----------------------------------------------------------------------------
(* TauP_Pierce.depthCorrect.  A tau model is kept as its source depth and  *)
(* the ordered list of its branch depths.  TauModel and TauP_Time are not  *)
(* part of the sources read here: splitBranch adds a branch depth, and the *)
(* inherited depthCorrect builds tModDepth from tMod when there is none    *)
(* for the depth asked (the comment at line 61), or fails.                 *)

TauModel(sourceDepth, branchDepths) ==
    [none |-> FALSE, sourceDepth |-> sourceDepth,
     branchDepths |-> branchDepths]

(* tMod.splitBranch(depth): a new tau model with a branch at depth.        *)
splitBranch(tMod, depth) ==
    IF \E k \in 1..Len(tMod.branchDepths) : tMod.branchDepths[k] = depth
    THEN tMod
    ELSE [tMod EXCEPT !.branchDepths =
            SortedSeq({ tMod.branchDepths[k] :
                          k \in 1..Len(tMod.branchDepths) } \cup {depth})]

(* TauP_Time.depthCorrect(self, depth): the instance after it returned.    *)
InheritedDepthCorrect(self, depth) ==
    IF self.tModDepth.none \/ self.tModDepth.sourceDepth # depth
    THEN [self EXCEPT !.tModDepth =
            [splitBranch(self.tMod, depth) EXCEPT !.sourceDepth = depth]]
    ELSE self

(* Lines 48-54: the loop over the branch depths for one addDepth; the      *)
(* assignment of line 54 is inside the loop, after the test of line 49.    *)
RECURSIVE BranchDepthLoop(_, _, _)
BranchDepthLoop(addDepth, branchDepths, mustRecalc) ==
    IF branchDepths = <<>> THEN mustRecalc
    ELSE IF addDepth = Head(branchDepths) THEN mustRecalc
    ELSE BranchDepthLoop(addDepth, Tail(branchDepths), TRUE)

(* Lines 47-56: the loop over self.addDepth.                               *)
RECURSIVE AddDepthLoop(_, _, _)
AddDepthLoop(addDepths, branchDepths, mustRecalc) ==
    IF addDepths = <<>> THEN mustRecalc
    ELSE LET found == BranchDepthLoop(Head(addDepths), branchDepths,
                                      mustRecalc)
         IN  IF found THEN TRUE
             ELSE AddDepthLoop(Tail(addDepths), branchDepths, found)

(* Lines 40-58: whether depthCorrect recalculates.                         *)
MustRecalc(self, depth) ==
    IF self.tModDepth.sourceDepth = depth
    THEN IF self.addDepth # <<>>
         THEN AddDepthLoop(self.addDepth, self.tModDepth.branchDepths,
                           FALSE)
         ELSE FALSE
    ELSE TRUE

(* Lines 66-67: self.tMod split at every addDepth.                         *)
RECURSIVE SplitLoop(_, _)
SplitLoop(tMod, addDepths) ==
    IF addDepths = <<>> THEN tMod
    ELSE SplitLoop(splitBranch(tMod, Head(addDepths)), Tail(addDepths))

(* depthCorrect (lines 33-69): the instance after the call and what the    *)
(* call gave, val the branch it took.  tModDepth of None fails at line 44; *)
(* when the inherited depthCorrect fails the exception leaves the method   *)
(* from line 62 or from line 68, before line 69.                           *)
depthCorrect(self, depth, inheritedFails) ==
    IF self.tModDepth.none
    THEN [self |-> self, ret |-> Raised("AttributeError")]
    ELSE IF ~MustRecalc(self, depth)
    THEN IF inheritedFails
         THEN [self |-> self, ret |-> Raised("TauModelException")]
         ELSE [self |-> InheritedDepthCorrect(self, depth),
               ret |-> Returned(FALSE)]
    ELSE LET split == [self EXCEPT !.tModDepth = NoTauModel,
                                   !.tMod = SplitLoop(self.tMod,
                                                      self.addDepth)]
         IN  IF inheritedFails
             THEN [self |-> split, ret |-> Raised("TauModelException")]
             ELSE [self |-> [InheritedDepthCorrect(split, depth)
                               EXCEPT !.tMod = self.tMod],
                   ret |-> Returned(TRUE)]

(* The depths of the tau models, of addDepth and of the calls; a tau model *)
(* is made for a source at the surface and has a branch there.             *)
PierceDepths == {0, 100, 350}

TauModels ==
    { TauModel(0, SortedSeq(D \cup {0})) : D \in SUBSET PierceDepths }

MaxAddDepths == 2

InitPierce ==
    /\ \E tMod \in TauModels :
          pierce = [tMod |-> tMod, tModDepth |-> tMod, addDepth |-> <<>>]
    /\ vMod = DefaultModel
    /\ op = "TauP_Pierce"
    /\ arg = NoArg
    /\ ret = Returned(0)
    /\ old = pierce

(* The caller sets the addDepth attribute (line 27 starts it empty).       *)
SetAddDepth(addDepth) ==
    /\ pierce' = [pierce EXCEPT !.addDepth = addDepth]
    /\ op' = "addDepth"
    /\ arg' = addDepth
    /\ ret' = Returned(0)
    /\ old' = pierce
    /\ vMod' = vMod

DepthCorrect(depth, inheritedFails) ==
    /\ pierce' = depthCorrect(pierce, depth, inheritedFails).self
    /\ op' = "depthCorrect"
    /\ arg' = depth
    /\ ret' = depthCorrect(pierce, depth, inheritedFails).ret
    /\ old' = pierce
    /\ vMod' = vMod

NextPierce ==
    \/ \E addDepth \in SeqsUpTo(PierceDepths, MaxAddDepths) :
          SetAddDepth(addDepth)
    \/ \E depth \in PierceDepths, inheritedFails \in BOOLEAN :
          DepthCorrect(depth, inheritedFails)

SpecPierce == InitPierce /\ [][NextPierce]_vars

(* Whether a depth is among the depths of a list.                          *)
Among(depth, depths) == \E k \in 1..Len(depths) : depths[k] = depth

(* C17: a depthCorrect that returns has recalculated exactly when the      *)
(* depth asked differs from the source depth of tModDepth or some addDepth *)
(* is not among the branch depths of tModDepth, at whatever place of the   *)
(* list a branch depth stands; without recalculation tModDepth is kept.    *)
C17_RecalcIffNeeded ==
    (op = "depthCorrect" /\ ret.exc = "") =>
        /\ ret.val <=>
              \/ arg # old.tModDepth.sourceDepth
              \/ \E k \in 1..Len(old.addDepth) :
                    ~Among(old.addDepth[k], old.tModDepth.branchDepths)
        /\ ~ret.val => pierce.tModDepth = old.tModDepth

(* C18: depthCorrect leaves self.tMod as it was before the call, whether   *)
(* it recalculated or not and also when the inherited depthCorrect failed. *)
C18_TModRestored ==
    op = "depthCorrect" => pierce.tMod = old.tMod

(* What holds of tMod: every depthCorrect that returns leaves it as it     *)
(* was.                                                                    *)
TModRestoredOnReturn ==
    (op = "depthCorrect" /\ ret.exc = "") => pierce.tMod = old.tMod

----------------------------------------------------------------------------
(* fixDisconDepths and the order of the boundary depths.                   *)

(* Contiguous layers inside [0, radiusOfEarth], and stored boundary depths *)
(* in their order.                                                         *)
LayersInsideEarth(m) ==
    /\ ContiguousIncreasing(m)
    /\ 0 <= m.layers[1].topDepth
    /\ m.layers[Len(m.layers)].botDepth <= m.radiusOfEarth

BoundariesInOrder(m) == m.mohoDepth <= m.cmbDepth /\ m.cmbDepth <= m.iocbDepth

(* C19: fixDisconDepths on a model of contiguous layers inside             *)
(* [0, radiusOfEarth] whose stored depths are in the order moho <= cmb <=  *)
(* iocb leaves depths with 0 <= moho <= cmb <= iocb <= radiusOfEarth.      *)
C19_FixKeepsBoundaryOrder ==
    ( /\ op = "fixDisconDepths"
      /\ LayersInsideEarth(old)
      /\ BoundariesInOrder(old) )
    => /\ 0 <= vMod.mohoDepth
       /\ BoundariesInOrder(vMod)
       /\ vMod.iocbDepth <= vMod.radiusOfEarth

(* What holds of the order: the same without the inner-core boundary.      *)
FixKeepsMohoAboveCmb ==
    ( /\ op = "fixDisconDepths"
      /\ LayersInsideEarth(old)
      /\ BoundariesInOrder(old) )
    => /\ 0 <= vMod.mohoDepth
       /\ vMod.mohoDepth <= vMod.cmbDepth
       /\ vMod.cmbDepth <= vMod.radiusOfEarth
       /\ vMod.iocbDepth <= vMod.radiusOfEarth

(* C20: a call of fixDisconDepths directly after a call of it returns      *)
(* false and leaves mohoDepth, cmbDepth and iocbDepth as the first call    *)
(* set them.                                                               *)
C20_FixIdempotent ==
    [][ (op = "fixDisconDepths" /\ op' = "fixDisconDepths") =>
           /\ ret'.val = FALSE
           /\ Boundaries(vMod') = Boundaries(vMod) ]_vars

====
